---- MODULE Spec2Model ----
(***************************************************************************)
(* Scoped sub-arenas of a typed arena (src/src/scoped.rs).                 *)
(*                                                                         *)
(* An arena owns a ChunkList {current, rest} behind a RefCell.  A SubArena *)
(* mutably borrows its parent's ChunkList, steals the parent's current     *)
(* Vec into a fresh inner arena, and on drop truncates the stolen Vec to   *)
(* its length at theft time and swaps it back into the parent.             *)
(*                                                                         *)
(* Arena 0 is the base arena; arena s (s >= 1) is the inner arena of       *)
(* sub-arena s.  Elements are identified by the order of their allocation. *)
(***************************************************************************)
EXTENDS Integers, Sequences, FiniteSets, TLC

\* Bounds of the model.
MaxSubs == 2
MaxElems == 3
MaxInitCap == 1

Arenas == 0..MaxSubs
Subs == 1..MaxSubs
Elems == 1..MaxElems

VARIABLES
    chunks,      \* arena -> ChunkList: [current: Vec, rest: Seq(Vec)]
    borrowed,    \* arena -> BOOLEAN: the RefCell's mutable-borrow flag
    sub,         \* sub-arena -> [status, parent, old_len]
    pc,          \* position inside the running destruction, or "idle"
    cur,         \* the sub-arena being destroyed (0 when none)
    stolen_vec,  \* the local of Drop::drop
    panic,       \* "none", or the panic that is unwinding the stack
    nextId,      \* identity of the next element allocated
    dropCount,   \* element -> number of times it has been destroyed
    owner,       \* element -> arena through which it was allocated
    pre,         \* sub-arena -> the parent's ChunkList when it was borrowed
    last         \* the operation performed last, with what it started from

vars == <<chunks, borrowed, sub, pc, cur, stolen_vec, panic, nextId,
          dropCount, owner, pre, last>>

----------------------------------------------------------------------------
\* Vectors and chunk lists

Max(a, b) == IF a >= b THEN a ELSE b

\* Vec::new(): no elements, no capacity
VecNew == [elems |-> <<>>, cap |-> 0]

\* Vec::with_capacity(n)
WithCapacity(n) == [elems |-> <<>>, cap |-> n]

EmptyChunks == [current |-> VecNew, rest |-> <<>>]

NoSub == [status |-> "none", parent |-> 0, old_len |-> 0]

RECURSIVE NextPowerOfTwoFrom(_, _)
NextPowerOfTwoFrom(p, n) == IF p >= n THEN p ELSE NextPowerOfTwoFrom(2 * p, n)

NextPowerOfTwo(n) == NextPowerOfTwoFrom(1, n)

\* archive_current_and_grow: current is archived at the end of rest and
\* replaced by a fresh, larger buffer
Reserve(cl, additional) ==
    [current |-> WithCapacity(Max(2 * cl.current.cap, NextPowerOfTwo(additional))),
     rest    |-> Append(cl.rest, cl.current)]

\* place: append to current, growing first when current is full
Place(cl, e) ==
    IF Len(cl.current.elems) < cl.current.cap
    THEN [cl EXCEPT !.current.elems = Append(@, e)]
    ELSE [Reserve(cl, 1) EXCEPT !.current.elems = Append(@, e)]

RECURSIVE Flatten(_)
\* every element of a sequence of buffers, in order
Flatten(bufs) ==
    IF bufs = <<>> THEN <<>> ELSE Head(bufs).elems \o Flatten(Tail(bufs))

\* every element a chunk list holds
AllElems(cl) == Flatten(cl.rest) \o cl.current.elems

Range(seq) == {seq[i] : i \in DOMAIN seq}

\* running the destructor of every element of seq
Destroy(dc, seq) ==
    [e \in Elems |-> dc[e] + Cardinality({i \in DOMAIN seq : seq[i] = e})]

NoDrops == [e \in Elems |-> 0]

\* the record of an operation other than a destruction
Op(name, a, s) ==
    [op |-> name, arena |-> a, sub |-> s, exit |-> "none",
     pre |-> EmptyChunks, old_len |-> 0, grown |-> 0, dc |-> NoDrops]

----------------------------------------------------------------------------
\* The RefCell around an arena's chunk list

\* borrow_mut that hands out the reference without setting the flag
BorrowMutUnflagged(b, a) == b

\* RefCell::borrow_mut succeeded: the flag is set for the RefMut's lifetime
BorrowMut(b, a) == [b EXCEPT ![a] = TRUE]

\* a RefMut whose drop leaves the flag set
ReleaseLeaked(b, a) == b

\* the RefMut is dropped
Release(b, a) == [b EXCEPT ![a] = FALSE]

\* a failing attempt that has already taken the arena's current buffer when the
\* conflict is detected
BorrowConflictDirty(name, a) ==
    /\ panic' = "BorrowConflict"
    /\ last' = Op(name, a, 0)
    /\ chunks' = [chunks EXCEPT ![a].current = VecNew,
                                ![a].rest = Append(@, VecNew)]
    /\ UNCHANGED <<borrowed, sub, pc, cur, stolen_vec, nextId, dropCount,
                   owner, pre>>

\* RefCell::borrow_mut on a cell already borrowed: panic, nothing else changes
BorrowConflict(name, a) ==
    /\ panic' = "BorrowConflict"
    /\ last' = Op(name, a, 0)
    /\ UNCHANGED <<chunks, borrowed, sub, pc, cur, stolen_vec, nextId,
                   dropCount, owner, pre>>

\* an arena the program holds a usable reference to
Live(a) == IF a = 0 THEN TRUE ELSE sub[a].status = "alive"

\* the program is executing normally (not unwinding, not inside a destructor)
Running == pc = "idle" /\ panic = "none"

HasFree == \E s \in Subs : sub[s].status = "none"

FreeSub == CHOOSE s \in Subs :
    sub[s].status = "none" /\ \A t \in Subs : sub[t].status = "none" => s <= t

\* a sub-arena or builder that borrows from arena a still exists
Borrower(a) == \E t \in Subs : sub[t].status # "none" /\ sub[t].parent = a

\* how the scope is being left
ExitPath == IF panic = "none" THEN "normal" ELSE "unwind"

----------------------------------------------------------------------------
\* Allocation through an arena (base arena, or a sub-arena via Deref)

\* Arena::alloc(&self, value)
Alloc(a) ==
    /\ Running
    /\ Live(a)
    /\ IF borrowed[a]
       THEN BorrowConflict("alloc", a)
       ELSE /\ nextId <= MaxElems
            /\ chunks' = [chunks EXCEPT ![a] = Place(@, nextId)]
            /\ owner' = [owner EXCEPT ![nextId] = a]
            /\ nextId' = nextId + 1
            /\ last' = Op("alloc", a, 0)
            /\ UNCHANGED <<borrowed, sub, pc, cur, stolen_vec, panic,
                           dropCount, pre>>

\* Arena::reserve_extend(&self, 1): grows when current has no room left
ReserveExtend(a) ==
    /\ Running
    /\ Live(a)
    /\ IF borrowed[a]
       THEN BorrowConflict("reserve_extend", a)
       ELSE /\ 1 > chunks[a].current.cap - Len(chunks[a].current.elems)
            /\ chunks' = [chunks EXCEPT ![a] = Reserve(@, 1)]
            /\ last' = Op("reserve_extend", a, 0)
            /\ UNCHANGED <<borrowed, sub, pc, cur, stolen_vec, panic, nextId,
                           dropCount, owner, pre>>

----------------------------------------------------------------------------
\* Construction

\* from_chunks that copies the parent's current buffer and leaves it in place
FromChunksKeepsCurrent(old) ==
    LET inner_vec == old.current
    IN  [old     |-> old,
         old_len |-> Len(inner_vec.elems),
         inner   |-> [current |-> inner_vec, rest |-> <<>>]]

\* from_chunks that records the capacity of the taken buffer, not its length
FromChunksCapAsLen(old) ==
    LET inner_vec == old.current
    IN  [old     |-> [old EXCEPT !.current = VecNew],
         old_len |-> inner_vec.cap,
         inner   |-> [current |-> inner_vec, rest |-> <<>>]]

\* SubArena::from_chunks: old is the parent's chunk list
FromChunks(old) ==
    LET inner_vec == old.current
    IN  [old     |-> [old EXCEPT !.current = VecNew],
         old_len |-> Len(inner_vec.elems),
         inner   |-> [current |-> inner_vec, rest |-> <<>>]]

\* SubArena::new(&p)
SubArenaNew(p) ==
    /\ Running
    /\ Live(p)
    /\ IF borrowed[p]
       THEN BorrowConflict("new", p)
       ELSE /\ HasFree
            /\ LET s == FreeSub
                   r == FromChunks(chunks[p])
               IN  /\ borrowed' = BorrowMut(borrowed, p)
                   /\ chunks' = [chunks EXCEPT ![p] = r.old, ![s] = r.inner]
                   /\ sub' = [sub EXCEPT ![s] =
                                [status |-> "alive", parent |-> p,
                                 old_len |-> r.old_len]]
                   /\ pre' = [pre EXCEPT ![s] = chunks[p]]
                   /\ last' = Op("new", p, s)
            /\ UNCHANGED <<pc, cur, stolen_vec, panic, nextId, dropCount,
                           owner>>

\* a builder that keeps a plain reference and borrows only in build
BuilderNewNoBorrow(p) ==
    /\ Running
    /\ Live(p)
    /\ HasFree
    /\ LET s == FreeSub
       IN  /\ sub' = [sub EXCEPT ![s] =
                        [status |-> "builder", parent |-> p, old_len |-> 0]]
           /\ pre' = [pre EXCEPT ![s] = chunks[p]]
           /\ last' = Op("builder_new", p, s)
    /\ UNCHANGED <<chunks, borrowed, pc, cur, stolen_vec, panic, nextId,
                   dropCount, owner>>

\* a builder that already takes the parent's current buffer in new
BuilderNewEager(p) ==
    /\ Running
    /\ Live(p)
    /\ IF borrowed[p]
       THEN BorrowConflict("builder_new", p)
       ELSE /\ HasFree
            /\ LET s == FreeSub
               IN  /\ borrowed' = BorrowMut(borrowed, p)
                   /\ chunks' = [chunks EXCEPT ![p] = FromChunks(@).old]
                   /\ sub' = [sub EXCEPT ![s] =
                                [status |-> "builder", parent |-> p,
                                 old_len |-> 0]]
                   /\ pre' = [pre EXCEPT ![s] = chunks[p]]
                   /\ last' = Op("builder_new", p, s)
            /\ UNCHANGED <<pc, cur, stolen_vec, panic, nextId, dropCount,
                           owner>>

\* SubArenaBuilder::new(&p): the borrow is taken, the storage is not touched
BuilderNew(p) ==
    /\ Running
    /\ Live(p)
    /\ IF borrowed[p]
       THEN BorrowConflict("builder_new", p)
       ELSE /\ HasFree
            /\ LET s == FreeSub
               IN  /\ borrowed' = BorrowMut(borrowed, p)
                   /\ sub' = [sub EXCEPT ![s] =
                                [status |-> "builder", parent |-> p,
                                 old_len |-> 0]]
                   /\ pre' = [pre EXCEPT ![s] = chunks[p]]
                   /\ last' = Op("builder_new", p, s)
            /\ UNCHANGED <<chunks, pc, cur, stolen_vec, panic, nextId,
                           dropCount, owner>>

\* SubArenaBuilder::build(self)
Build(s) ==
    /\ Running
    /\ sub[s].status = "builder"
    /\ LET p == sub[s].parent
           r == FromChunks(chunks[p])
       IN  /\ chunks' = [chunks EXCEPT ![p] = r.old, ![s] = r.inner]
           /\ sub' = [sub EXCEPT ![s].status = "alive",
                                 ![s].old_len = r.old_len]
           /\ last' = Op("build", p, s)
    /\ UNCHANGED <<borrowed, pc, cur, stolen_vec, panic, nextId, dropCount,
                   owner, pre>>

\* a SubArenaBuilder goes out of scope without build: its RefMut is dropped
DiscardBuilder(s) ==
    /\ pc = "idle"
    /\ sub[s].status = "builder"
    /\ borrowed' = Release(borrowed, sub[s].parent)
    /\ sub' = [sub EXCEPT ![s] = NoSub]
    /\ pre' = [pre EXCEPT ![s] = EmptyChunks]
    /\ last' = [Op("discard", sub[s].parent, s) EXCEPT
                  !.exit = ExitPath, !.pre = pre[s]]
    /\ UNCHANGED <<chunks, pc, cur, stolen_vec, panic, nextId, dropCount,
                   owner>>

----------------------------------------------------------------------------
\* Destruction: Drop::drop, then the fields in declaration order

\* the selection taking the most recently archived buffer
TakeStolenLastArchived(inner) ==
    IF inner.rest # <<>>
    THEN [taken |-> inner.rest[Len(inner.rest)],
          inner |-> [inner EXCEPT !.rest[Len(inner.rest)] = VecNew]]
    ELSE [taken |-> inner.current,
          inner |-> [inner EXCEPT !.current = VecNew]]

\* the selection simplified to &mut inner.current, whatever rest holds
TakeStolenCurrentOnly(inner) ==
    [taken |-> inner.current, inner |-> [inner EXCEPT !.current = VecNew]]

\* the chunk list of inner with the buffer selected by
\* inner.rest.get_mut(0).unwrap_or(&mut inner.current) replaced by Vec::new()
TakeStolen(inner) ==
    IF inner.rest # <<>>
    THEN [taken |-> inner.rest[1],
          inner |-> [inner EXCEPT !.rest[1] = VecNew]]
    ELSE [taken |-> inner.current,
          inner |-> [inner EXCEPT !.current = VecNew]]

\* the sub-arena's scope ends (normally, or because a panic unwinds through
\* it); nothing that borrows from it can still exist
DropBegin(s) ==
    /\ pc = "idle"
    /\ sub[s].status = "alive"
    /\ ~Borrower(s)
    /\ LET t == TakeStolen(chunks[s])
       IN  /\ stolen_vec' = t.taken
           /\ chunks' = [chunks EXCEPT ![s] = t.inner]
    /\ sub' = [sub EXCEPT ![s].status = "dropping"]
    /\ cur' = s
    /\ pc' = "truncate"
    /\ last' = [op |-> "drop", arena |-> sub[s].parent, sub |-> s,
                exit |-> ExitPath, pre |-> pre[s],
                old_len |-> sub[s].old_len, grown |-> Len(chunks[s].rest),
                dc |-> dropCount]
    /\ UNCHANGED <<borrowed, panic, nextId, dropCount, owner, pre>>

\* the struct with field old declared before field inner
FieldOrderOldFirst == <<"old", "inner">>

\* the fields of SubArena that own something, in declaration order: the order
\* in which they are dropped once Drop::drop has returned
FieldOrder == <<"inner", "old">>

\* what follows the drop of field f
AfterField(f) == IF FieldOrder[1] = f THEN FieldOrder[2] ELSE "idle"

\* the last field has been dropped: the sub-arena has ceased to exist
Gone(next) ==
    IF next = "idle"
    THEN /\ sub' = [sub EXCEPT ![cur] = NoSub]
         /\ pre' = [pre EXCEPT ![cur] = EmptyChunks]
         /\ cur' = 0
    ELSE UNCHANGED <<sub, pre, cur>>

\* the loop written with >= in place of >
PopGuardInclusive(v, old_len) == Len(v.elems) >= old_len

\* the loop continues while stolen_vec.len() > self.old_len
PopGuard(v, old_len) == Len(v.elems) > old_len

\* Vec::pop: the last element is removed and returned, if there is one
Pop(v) ==
    LET n == Len(v.elems)
    IN  IF n = 0
        THEN [vec |-> v, out |-> <<>>]
        ELSE [vec |-> [v EXCEPT !.elems = SubSeq(@, 1, n - 1)],
              out |-> <<v.elems[n]>>]

\* one turn of the loop: stolen_vec.pop(), and the popped element is destroyed
DropPop ==
    /\ pc = "truncate"
    /\ PopGuard(stolen_vec, sub[cur].old_len)
    /\ LET r == Pop(stolen_vec)
       IN  /\ dropCount' = Destroy(dropCount, r.out)
           /\ stolen_vec' = r.vec
    /\ UNCHANGED <<chunks, borrowed, sub, pc, cur, panic, nextId, owner, pre,
                   last>>

\* a destructor that forgets to hand the buffer back
SwapCurrentForgotten(cl, v) == [chunks |-> cl, local |-> v]

\* a destructor that hands the buffer back only when the thread is not
\* panicking
SwapCurrentUnlessPanicking(cl, v) ==
    IF panic = "none"
    THEN [chunks |-> [cl EXCEPT !.current = v], local |-> cl.current]
    ELSE [chunks |-> cl, local |-> v]

\* mem::swap(&mut stolen_vec, &mut self.old.current)
SwapCurrent(cl, v) ==
    [chunks |-> [cl EXCEPT !.current = v], local |-> cl.current]

\* a destructor that hands the buffer back to the base arena, whatever arena
\* the sub-arena was created from
DropSwapIntoBase ==
    /\ pc = "truncate"
    /\ ~PopGuard(stolen_vec, sub[cur].old_len)
    /\ LET r == SwapCurrent(chunks[0], stolen_vec)
       IN  /\ chunks' = [chunks EXCEPT ![0] = r.chunks]
           /\ dropCount' = Destroy(dropCount, r.local.elems)
    /\ stolen_vec' = VecNew
    /\ pc' = FieldOrder[1]
    /\ UNCHANGED <<borrowed, sub, cur, panic, nextId, owner, pre, last>>

\* the swap with the parent's current; the local then goes out of scope
DropSwap ==
    /\ pc = "truncate"
    /\ ~PopGuard(stolen_vec, sub[cur].old_len)
    /\ LET p == sub[cur].parent
           r == SwapCurrent(chunks[p], stolen_vec)
       IN  /\ chunks' = [chunks EXCEPT ![p] = r.chunks]
           /\ dropCount' = Destroy(dropCount, r.local.elems)
    /\ stolen_vec' = VecNew
    /\ pc' = FieldOrder[1]
    /\ UNCHANGED <<borrowed, sub, cur, panic, nextId, owner, pre, last>>

\* field inner is dropped: every buffer of the inner arena with its elements
DropInner ==
    /\ pc = "inner"
    /\ dropCount' = Destroy(dropCount, AllElems(chunks[cur]))
    /\ chunks' = [chunks EXCEPT ![cur] = EmptyChunks]
    /\ pc' = AfterField("inner")
    /\ Gone(AfterField("inner"))
    /\ UNCHANGED <<borrowed, stolen_vec, panic, nextId, owner, last>>

\* field old is dropped: the RefMut releases the parent's borrow
DropOld ==
    /\ pc = "old"
    /\ borrowed' = Release(borrowed, sub[cur].parent)
    /\ pc' = AfterField("old")
    /\ Gone(AfterField("old"))
    /\ UNCHANGED <<chunks, stolen_vec, panic, nextId, dropCount, owner, last>>

\* the unwinding stops (catch_unwind) and normal execution resumes
Catch ==
    /\ pc = "idle"
    /\ panic # "none"
    /\ panic' = "none"
    /\ last' = Op("catch", 0, 0)
    /\ UNCHANGED <<chunks, borrowed, sub, pc, cur, stolen_vec, nextId,
                   dropCount, owner, pre>>

----------------------------------------------------------------------------

Init ==
    /\ \E c \in 0..MaxInitCap :
          chunks = [a \in Arenas |->
                      IF a = 0 THEN [current |-> WithCapacity(c), rest |-> <<>>]
                               ELSE EmptyChunks]
    /\ borrowed = [a \in Arenas |-> FALSE]
    /\ sub = [s \in Subs |-> NoSub]
    /\ pc = "idle"
    /\ cur = 0
    /\ stolen_vec = VecNew
    /\ panic = "none"
    /\ nextId = 1
    /\ dropCount = NoDrops
    /\ owner = [e \in Elems |-> 0]
    /\ pre = [s \in Subs |-> EmptyChunks]
    /\ last = Op("init", 0, 0)

Next ==
    \/ \E a \in Arenas : Alloc(a)
    \/ \E a \in Arenas : ReserveExtend(a)
    \/ \E p \in Arenas : SubArenaNew(p)
    \/ \E p \in Arenas : BuilderNew(p)
    \/ \E s \in Subs : Build(s)
    \/ \E s \in Subs : DiscardBuilder(s)
    \/ \E s \in Subs : DropBegin(s)
    \/ DropPop
    \/ DropSwap
    \/ DropInner
    \/ DropOld
    \/ Catch

Spec == Init /\ [][Next]_vars

----------------------------------------------------------------------------
\* Properties

\* the destruction recorded in last has run to its end
Destroyed == last.op = "drop" /\ pc = "idle"

\* elements allocated through the destroyed sub-arena and destroyed by that
\* destruction
ScopeElems == {e \in Elems : e < nextId /\ owner[e] = last.sub /\ last.dc[e] = 0}

\* a sub-arena created from arena a is alive
HasLiveSub(a) == \E s \in Subs : sub[s].status = "alive" /\ sub[s].parent = a

\* C1 (scope isolation): once a sub-arena has been destroyed, the parent's
\* current buffer is the buffer it held when the sub-arena was created: its
\* length is the recorded boundary, it holds the same elements in the same
\* order, and none of them has been destroyed.
C1_ScopeIsolation ==
    Destroyed =>
        LET now == chunks[last.arena].current
        IN  /\ Len(now.elems) = last.old_len
            /\ now.elems = last.pre.current.elems
            /\ \A e \in Range(now.elems) : dropCount[e] = 0

\* a scope over a non-empty buffer allocated, grew, and has been destroyed
C1_Witness ==
    /\ Destroyed
    /\ last.pre.current.elems # <<>>
    /\ last.grown >= 1
    /\ ScopeElems # {}
    /\ chunks[last.arena].current = last.pre.current

\* C2 (exclusivity): while a sub-arena created from an arena is alive,
\* SubArena::new, SubArenaBuilder::new and alloc on that arena panic with a
\* borrow conflict: no sub-arena is created, no element is placed, and no
\* chunk list or borrow changes.
C2_Exclusivity ==
    [][\A a \in Arenas :
          (HasLiveSub(a) /\ (Alloc(a) \/ SubArenaNew(a) \/ BuilderNew(a)))
          => /\ panic' = "BorrowConflict"
             /\ UNCHANGED <<chunks, borrowed, sub, nextId, owner>>]_vars

\* an attempt on an arena with a live sub-arena has just panicked
C2_Witness ==
    /\ panic = "BorrowConflict"
    /\ last.op \in {"alloc", "new", "builder_new"}
    /\ HasLiveSub(last.arena)

\* C3 (release): after a sub-arena has been destroyed its parent is not
\* borrowed, and an allocation through the parent or the construction of a
\* sub-arena or builder on it succeeds.
C3_BorrowableAgain ==
    /\ [](Destroyed => ~borrowed[last.arena])
    /\ [][\A a \in Arenas :
            (Destroyed /\ last.arena = a
                /\ (Alloc(a) \/ SubArenaNew(a) \/ BuilderNew(a)))
            => /\ panic' = "none"
               /\ last'.op = "alloc" =>
                     /\ chunks'[a].current.elems # <<>>
                     /\ chunks'[a].current.elems[Len(chunks'[a].current.elems)]
                            = nextId
               /\ last'.op \in {"new", "builder_new"} =>
                     /\ sub'[last'.sub].parent = a
                     /\ sub'[last'.sub].status \in {"alive", "builder"}
                     /\ borrowed'[a]]_vars

\* a sub-arena has been destroyed in normal execution, and its parent can be
\* allocated into and borrowed without a panic
C3_Witness ==
    /\ Destroyed
    /\ panic = "none"
    /\ ScopeElems # {}
    /\ ENABLED (Alloc(last.arena) /\ panic' = "none")
    /\ ENABLED (SubArenaNew(last.arena) /\ panic' = "none")

\* C4 (overflow correctness): when the scope grew at least once, its
\* destruction destroys each element allocated in the scope exactly once and
\* no other element, and no element of the scope is left in any buffer.
C4_OverflowCorrect ==
    (Destroyed /\ last.grown >= 1) =>
        /\ \A e \in Elems :
              dropCount[e] = last.dc[e] + (IF e \in ScopeElems THEN 1 ELSE 0)
        /\ \A e \in Range(AllElems(last.pre)) : dropCount[e] = 0
        /\ \A a \in Arenas : Range(AllElems(chunks[a])) \cap ScopeElems = {}
        /\ Range(stolen_vec.elems) = {}

\* a scope over a non-empty buffer grew twice and has been destroyed
C4_Witness ==
    /\ Destroyed
    /\ last.grown >= 2
    /\ last.pre.current.elems # <<>>
    /\ Cardinality(ScopeElems) >= 2

\* C5 (nesting symmetry): when the sub-arena created on the base arena has been
\* destroyed (every sub-arena nested in it was destroyed before it), the base
\* arena's chunk list, archived buffers and current buffer, is element for
\* element what it was before that sub-arena was created, and none of its
\* elements has been destroyed.
C5_NestingSymmetry ==
    (Destroyed /\ last.arena = 0) =>
        /\ chunks[0] = last.pre
        /\ \A e \in Range(AllElems(chunks[0])) : dropCount[e] = 0 /\ owner[e] = 0

\* a chain of two scopes over a non-empty base, both of which allocated, has
\* been destroyed
C5_Witness ==
    /\ Destroyed
    /\ last.arena = 0
    /\ AllElems(last.pre) # <<>>
    /\ \E e \in ScopeElems : \E f \in Elems :
          /\ e < f /\ f < nextId
          /\ owner[f] \notin {0, last.sub}
          /\ dropCount[f] = 1

\* C6 (idempotent emptiness): a sub-arena destroyed without having allocated
\* anything destroys no element and leaves the parent's current buffer
\* identical to what it was before the sub-arena was created.
C6_EmptyScope ==
    (Destroyed /\ ScopeElems = {}) =>
        /\ chunks[last.arena].current = last.pre.current
        /\ dropCount = last.dc

\* an empty scope over a non-empty buffer has been destroyed
C6_Witness ==
    /\ Destroyed
    /\ ScopeElems = {}
    /\ last.pre.current.elems # <<>>
    /\ last.pre.current.cap > Len(last.pre.current.elems)

\* C7 (every exit path): on a normal exit and on an unwinding one alike, the
\* destruction of a sub-arena restores the parent's current buffer, releases
\* the parent's borrow and leaves no sub-arena behind; and while a panic
\* unwinds, the innermost sub-arena or builder can always be destroyed.
C7_EveryExitPath ==
    /\ Destroyed =>
          /\ last.exit = (IF panic = "none" THEN "normal" ELSE "unwind")
          /\ chunks[last.arena].current = last.pre.current
          /\ ~borrowed[last.arena]
          /\ sub[last.sub].status = "none"
          /\ chunks[last.sub] = EmptyChunks
    /\ (pc = "idle" /\ panic # "none" /\ \E s \in Subs : sub[s].status # "none")
          => ENABLED (\E s \in Subs : DropBegin(s) \/ DiscardBuilder(s))

\* a sub-arena that had allocated has been destroyed by the unwinding of a
\* borrow conflict
C7_Witness ==
    /\ Destroyed
    /\ panic = "BorrowConflict"
    /\ last.exit = "unwind"
    /\ ScopeElems # {}
    /\ last.pre.current.elems # <<>>

\* C8 (two-phase construction): build yields the sub-arena that SubArena::new
\* would have yielded on the parent as it was at SubArenaBuilder::new: the same
\* boundary, the same inner chunk list, the same parent chunk list, the borrow
\* held; and both constructors panic exactly when the parent is borrowed.
C8_BuilderEquivalent ==
    [][/\ \A s \in Subs :
            Build(s) =>
                LET p == sub[s].parent
                    direct == FromChunks(pre[s])
                IN  /\ sub'[s] = [status |-> "alive", parent |-> p,
                                  old_len |-> direct.old_len]
                    /\ chunks'[s] = direct.inner
                    /\ chunks'[s].rest = <<>>
                    /\ chunks'[s].current = pre[s].current
                    /\ chunks'[p] = direct.old
                    /\ borrowed'[p]
       /\ \A p \in Arenas :
            /\ BuilderNew(p) => (panic' = "BorrowConflict" <=> borrowed[p])
            /\ SubArenaNew(p) => (panic' = "BorrowConflict" <=> borrowed[p])
            /\ (BuilderNew(p) /\ panic' = "none") => borrowed'[p]
            /\ (SubArenaNew(p) /\ panic' = "none") => borrowed'[p]]_vars

\* a sub-arena over a non-empty buffer has just been built from a builder
C8_Witness ==
    /\ last.op = "build"
    /\ sub[last.sub].status = "alive"
    /\ sub[last.sub].old_len >= 1
    /\ chunks[last.sub].current.elems # <<>>

\* progress measure of a destruction
DropMeasure ==
    IF pc = "truncate" THEN 3 + Len(stolen_vec.elems)
    ELSE IF pc = "idle" THEN 0
    ELSE IF pc = FieldOrder[1] THEN 2 ELSE 1

\* a step of the destruction that changes the state
DropStep == (DropPop \/ DropSwap \/ DropInner \/ DropOld) /\ vars' # vars

\* C9 (totality): a destruction can start for every sub-arena nothing borrows
\* from; once started it can always take a further step, every step brings it
\* closer to its end, and no step raises a panic.
C9_DropTotal ==
    /\ [](\A s \in Subs :
            (pc = "idle" /\ sub[s].status = "alive" /\ ~Borrower(s))
                => ENABLED DropBegin(s))
    /\ [](pc # "idle" => ENABLED DropStep)
    /\ [][pc # "idle" => (DropMeasure' < DropMeasure /\ panic' = panic)]_vars

\* a destruction has ended for a scope that grew twice and had allocated
C9_Witness ==
    /\ Destroyed
    /\ last.grown >= 2
    /\ ScopeElems # {}

\* C10 as stated: when field inner is about to be dropped, the parent's borrow
\* has already been released.
C10_ReleasedBeforeInner ==
    pc = "inner" => ~borrowed[sub[cur].parent]

\* C10 (order of destruction): the boundary buffer is truncated, then swapped
\* into the parent's current, then inner is dropped, and the parent's borrow is
\* released last: the parent is still borrowed while the remaining buffers of
\* the scope and their elements are destroyed.
C10_DropOrder ==
    /\ pc = "truncate" =>
          /\ borrowed[sub[cur].parent]
          /\ chunks[sub[cur].parent].current = VecNew
    /\ pc = "inner" =>
          /\ borrowed[sub[cur].parent]
          /\ Len(chunks[sub[cur].parent].current.elems) = sub[cur].old_len
          /\ chunks[sub[cur].parent].current = last.pre.current
    /\ pc = "old" =>
          /\ borrowed[sub[cur].parent]
          /\ chunks[sub[cur].parent].current = last.pre.current
          /\ chunks[cur] = EmptyChunks
          /\ \A e \in ScopeElems : dropCount[e] = 1
    /\ Destroyed => ~borrowed[last.arena]

\* inner, holding buffers created after the first growth, has been dropped
\* and the parent is still borrowed
C10_Witness ==
    /\ pc = "old"
    /\ last.grown >= 1
    /\ borrowed[sub[cur].parent]
    /\ \E e \in ScopeElems : dropCount[e] = 1 /\ e \notin Range(last.pre.current.elems)

\* the buffers of a chunk list, archived ones first
Buffers(cl) == Append(cl.rest, cl.current)

\* a sub-arena that exists and that nothing borrows from: the one a
\* destruction can select
Innermost(s) == pc = "idle" /\ sub[s].status = "alive" /\ ~Borrower(s)

\* C11 (selection): for every sub-arena a destruction can start on, the buffer
\* the destruction selects (entry 0 of inner.rest when there is one, otherwise
\* inner.current) is the buffer stolen at construction: it has that buffer's
\* capacity, it starts with the pre-scope elements, no other buffer of inner
\* holds a pre-scope element or has that capacity; and that buffer is the one
\* truncated and handed back to the parent.
C11_SelectsStolen ==
    /\ \A s \in Subs :
          Innermost(s) =>
              LET sel  == TakeStolen(chunks[s])
                  bufs == Buffers(sel.inner)
              IN  /\ sel.taken.cap = pre[s].current.cap
                  /\ Len(sel.taken.elems) >= sub[s].old_len
                  /\ SubSeq(sel.taken.elems, 1, sub[s].old_len)
                        = pre[s].current.elems
                  /\ \A i \in DOMAIN bufs :
                        /\ Range(bufs[i].elems)
                              \cap Range(pre[s].current.elems) = {}
                        /\ Range(bufs[i].elems) \subseteq
                              {e \in Elems : owner[e] = s}
    /\ pc = "truncate" =>
          /\ stolen_vec.cap = last.pre.current.cap
          /\ SubSeq(stolen_vec.elems, 1, last.old_len) = last.pre.current.elems
    /\ Destroyed => chunks[last.arena].current = last.pre.current

\* a scope over a non-empty buffer that grew twice is about to be destroyed
C11_Witness ==
    \E s \in Subs :
        /\ Innermost(s)
        /\ Len(chunks[s].rest) >= 2
        /\ sub[s].old_len >= 1
        /\ chunks[s].rest[2].elems # <<>>

\* the elements allocated through arena a that have not been destroyed
LiveElemsOf(a) == {e \in Elems : e < nextId /\ owner[e] = a /\ dropCount[e] = 0}

\* a sub-arena has just been constructed (directly or by build)
Constructed == last.op \in {"new", "build"} /\ last.sub \in Subs

\* the boundary is the length of the parent's current buffer at construction
\* and inner starts as {current: that buffer, rest: empty}
BoundaryIsLength ==
    /\ \A s \in Subs :
          sub[s].status = "alive" => sub[s].old_len = Len(pre[s].current.elems)
    /\ Constructed =>
          /\ sub[last.sub].status = "alive"
          /\ chunks[last.sub] = [current |-> pre[last.sub].current, rest |-> <<>>]
          /\ chunks[last.arena].current = VecNew

\* C12 as stated: the boundary is the length of the parent's current buffer,
\* and a scope nested in a scope has the enclosing scope's boundary plus the
\* number of elements the enclosing scope allocated (2 + 2 = 4 in the example).
C12_NestedBoundaryAdds ==
    /\ BoundaryIsLength
    /\ (Constructed /\ last.arena \in Subs) =>
          sub[last.sub].old_len
              = sub[last.arena].old_len + Cardinality(LiveElemsOf(last.arena))

\* C12 (boundary): the boundary is the length of the parent's current buffer
\* at construction and inner starts as {current: that buffer, rest: empty};
\* a scope nested in a scope that has not grown has the enclosing scope's
\* boundary plus the number of elements the enclosing scope allocated; after
\* a growth it has the number of elements in the enclosing scope's newest
\* buffer, all of them allocated by the enclosing scope.
C12_Boundary ==
    /\ BoundaryIsLength
    /\ (Constructed /\ last.arena \in Subs) =>
          LET s == last.arena
              t == last.sub
          IN  IF chunks[s].rest = <<>>
              THEN sub[t].old_len
                      = sub[s].old_len + Cardinality(LiveElemsOf(s))
              ELSE /\ sub[t].old_len <= Cardinality(LiveElemsOf(s))
                   /\ Range(chunks[t].current.elems) \subseteq LiveElemsOf(s)

\* a scope over one element allocated one more without growing, and a scope
\* nested in it has just been constructed with boundary two
C12_Witness ==
    /\ Constructed
    /\ last.arena \in Subs
    /\ chunks[last.arena].rest = <<>>
    /\ sub[last.arena].old_len = 1
    /\ Cardinality(LiveElemsOf(last.arena)) = 1
    /\ sub[last.sub].old_len = 2

\* C13 (frame of allocation): while a sub-arena exists and has not handed its
\* buffer back, the parent's current buffer is the empty replacement buffer
\* and the parent's archived buffers are those it had at construction; no
\* allocation or growth through the sub-arena changes the parent's chunk list
\* or borrow.
C13_ParentUntouched ==
    /\ [](\A s \in Subs :
            (sub[s].status = "alive"
                \/ (sub[s].status = "dropping" /\ pc = "truncate"))
            => /\ chunks[sub[s].parent].current = VecNew
               /\ chunks[sub[s].parent].rest = pre[s].rest
               /\ borrowed[sub[s].parent])
    /\ [][\A s \in Subs :
            (sub[s].status = "alive" /\ (Alloc(s) \/ ReserveExtend(s)))
            => /\ chunks'[sub[s].parent] = chunks[sub[s].parent]
               /\ borrowed'[sub[s].parent] = borrowed[sub[s].parent]
               /\ sub' = sub]_vars

\* a scope whose parent has an archived buffer has allocated and grown
C13_Witness ==
    \E s \in Subs :
        /\ sub[s].status = "alive"
        /\ last.op \in {"alloc", "reserve_extend"}
        /\ last.arena = s
        /\ panic = "none"
        /\ chunks[s].rest # <<>>
        /\ chunks[s].current.elems # <<>>
        /\ chunks[sub[s].parent].rest # <<>>
        /\ AllElems(pre[s]) # <<>>

\* a sub-arena that has been constructed and has not yet handed its buffer
\* back to its parent
Holding(s) ==
    sub[s].status = "alive" \/ (sub[s].status = "dropping" /\ pc = "truncate")

RECURSIVE StolenBuf(_)
\* where the buffer stolen by sub-arena s is now: the local of a running
\* destruction, entry 0 of inner.rest after a growth, the buffer a nested
\* sub-arena stole in its turn, or inner.current
StolenBuf(s) ==
    IF sub[s].status = "dropping" THEN stolen_vec
    ELSE IF chunks[s].rest # <<>> THEN chunks[s].rest[1]
    ELSE IF \E t \in Subs : Holding(t) /\ sub[t].parent = s
         THEN StolenBuf(CHOOSE t \in Subs : Holding(t) /\ sub[t].parent = s)
         ELSE chunks[s].current

\* C14 (boundary invariant): between the construction of a sub-arena and the
\* moment its destruction hands the buffer back, the stolen buffer is at least
\* as long as the boundary, its first boundary elements are the pre-scope
\* elements in their order, none of them destroyed, and every element at a
\* higher index was allocated after the construction (through the scope or a
\* scope nested in it).
C14_BoundaryInvariant ==
    \A s \in Subs :
        Holding(s) =>
            LET b == StolenBuf(s)
                n == sub[s].old_len
            IN  /\ Len(b.elems) >= n
                /\ SubSeq(b.elems, 1, n) = pre[s].current.elems
                /\ b.cap = pre[s].current.cap
                /\ \A i \in DOMAIN b.elems :
                      IF i <= n
                      THEN dropCount[b.elems[i]] = 0
                      ELSE /\ b.elems[i] \notin Range(AllElems(pre[s]))
                           /\ owner[b.elems[i]] # 0

\* a scope over a non-empty buffer allocated into it without growing, and a
\* scope nested in it holds that same buffer now
C14_Witness ==
    \E s, t \in Subs :
        /\ sub[s].status = "alive"
        /\ sub[t].status = "alive"
        /\ sub[t].parent = s
        /\ sub[s].old_len >= 1
        /\ chunks[s] = EmptyChunks
        /\ Len(StolenBuf(s).elems) > sub[s].old_len
        /\ StolenBuf(s) = chunks[t].current

\* the sub-arenas and builders that borrow from arena a
BorrowersOf(a) == {t \in Subs : sub[t].status # "none" /\ sub[t].parent = a}

RECURSIVE ReachesBase(_, _)
\* following the borrows from arena a leads to the base arena within n steps,
\* through sub-arenas that are alive
ReachesBase(a, n) ==
    IF a = 0 THEN TRUE
    ELSE /\ n > 0
         /\ sub[a].status = "alive"
         /\ ReachesBase(sub[a].parent, n - 1)

\* C15 (reverse order of creation): the sub-arenas and builders that exist form
\* one chain of borrows from the base arena (each arena has at most one
\* borrower, is flagged as borrowed exactly when it has one, and every borrower
\* leads back to the base through live sub-arenas); an allocation succeeds only
\* in an arena nothing borrows from and panics in every other; and a
\* destruction starts, and a sub-arena ceases to exist, only when nothing
\* created from it exists.
C15_ReverseOrder ==
    /\ [](\A a \in Arenas :
            /\ Cardinality(BorrowersOf(a)) <= 1
            /\ Live(a) => (borrowed[a] <=> Borrower(a))
            /\ \A t \in BorrowersOf(a) : ReachesBase(a, MaxSubs))
    /\ [](pc # "idle" => sub[cur].status = "dropping" /\ ~Borrower(cur))
    /\ [][/\ \A a \in Arenas :
               /\ (Alloc(a) /\ panic' = "none") => ~Borrower(a)
               /\ (Alloc(a) /\ Borrower(a)) =>
                     panic' = "BorrowConflict" /\ chunks' = chunks
          /\ \A s \in Subs :
               /\ DropBegin(s) => ~Borrower(s)
               /\ (sub[s].status # "none" /\ sub'[s].status = "none")
                     => ~Borrower(s)]_vars

\* the inner one of two nested scopes, which had allocated, has been destroyed
\* while the outer one is still alive and borrowable again
C15_Witness ==
    /\ Destroyed
    /\ last.arena \in Subs
    /\ ScopeElems # {}
    /\ Innermost(last.arena)
    /\ borrowed[0]

\* a step of the destruction of sub-arena s
DropOf(s) ==
    DropBegin(s) \/ (cur = s /\ (DropPop \/ DropSwap \/ DropInner \/ DropOld))

\* C16 (frame of destruction): every step of the destruction of a sub-arena
\* leaves unchanged the chunk list of every arena other than its own inner
\* arena and its immediate parent, the archived buffers of the parent, the
\* borrow of every arena other than the parent, and the boundary, parent and
\* state of every other sub-arena; when a nested sub-arena has been destroyed
\* its parent has its buffer back and is not borrowed, while the arena the
\* parent was created from is still borrowed and still without its buffer.
C16_RestoresOnlyParent ==
    /\ [][\A s \in Subs :
            DropOf(s) =>
                LET p == sub[s].parent
                IN  /\ \A a \in Arenas \ {s, p} : chunks'[a] = chunks[a]
                    /\ chunks'[p].rest = chunks[p].rest
                    /\ \A a \in Arenas \ {p} : borrowed'[a] = borrowed[a]
                    /\ \A t \in Subs \ {s} :
                          sub'[t] = sub[t] /\ pre'[t] = pre[t]]_vars
    /\ []((Destroyed /\ last.arena \in Subs) =>
            LET p == last.arena
                g == sub[p].parent
            IN  /\ sub[p].status = "alive"
                /\ chunks[p].current = last.pre.current
                /\ ~borrowed[p]
                /\ borrowed[g]
                /\ chunks[g].current = VecNew
                /\ chunks[g].rest = pre[p].rest
                /\ sub[p].old_len = Len(pre[p].current.elems))

\* a scope nested in a scope has allocated and been destroyed; the outer scope
\* holds elements of its own and the base arena holds archived ones
C16_Witness ==
    /\ Destroyed
    /\ last.arena \in Subs
    /\ ScopeElems # {}
    /\ sub[last.arena].status = "alive"
    /\ sub[last.arena].parent = 0
    /\ chunks[last.arena].current.elems # <<>>
    /\ chunks[0].rest # <<>>

\* the attempts that borrow an arena's chunk list
Attempt(a) == Alloc(a) \/ ReserveExtend(a) \/ SubArenaNew(a) \/ BuilderNew(a)

\* C17 (failed attempts): an attempt on a borrowed arena raises the borrow
\* conflict and changes nothing else: every chunk list, every sub-arena with
\* its boundary, every borrow, every element; and while the panic unwinds no
\* element is placed, no sub-arena or builder is created and no arena is
\* borrowed: the attempt is not made again.
C17_FailureChangesNothing ==
    [][/\ \A a \in Arenas :
            (Attempt(a) /\ borrowed[a]) =>
                /\ panic' = "BorrowConflict"
                /\ UNCHANGED <<chunks, borrowed, sub, pc, cur, stolen_vec,
                               nextId, dropCount, owner, pre>>
       /\ (panic = "none" /\ panic' # "none") =>
                UNCHANGED <<chunks, borrowed, sub, pc, cur, stolen_vec,
                            nextId, dropCount, owner, pre>>
       /\ panic # "none" =>
                /\ nextId' = nextId
                /\ panic' \in {panic, "none"}
                /\ \A s \in Subs :
                      sub[s].status = "none" => sub'[s].status = "none"
                /\ \A a \in Arenas : borrowed'[a] => borrowed[a]
                /\ \A a \in Arenas :
                      Len(AllElems(chunks'[a])) > Len(AllElems(chunks[a]))
                          => (pc = "truncate" /\ a = sub[cur].parent)]_vars

\* an attempt on the parent of a live sub-arena that has allocated past a
\* non-zero boundary has just failed
C17_Witness ==
    /\ panic = "BorrowConflict"
    /\ pc = "idle"
    /\ last.op \in {"alloc", "new", "builder_new"}
    /\ \E s \in Subs :
          /\ sub[s].status = "alive"
          /\ sub[s].parent = last.arena
          /\ sub[s].old_len >= 1
          /\ Len(AllElems(chunks[s])) > sub[s].old_len

\* a builder has just been discarded without build
Discarded == last.op = "discard"

\* C18 (builder frame): while a builder exists its parent is borrowed and the
\* parent's chunk list, current and rest, is what it was before
\* SubArenaBuilder::new; SubArenaBuilder::new and the discarding of a builder
\* change no chunk list and destroy no element; after the discarding the
\* parent's chunk list is still what it was before SubArenaBuilder::new, the
\* parent is not borrowed, and a sub-arena can be created from it without a
\* panic.
C18_BuilderTakesNothing ==
    /\ [](\A s \in Subs :
            sub[s].status = "builder" =>
                /\ borrowed[sub[s].parent]
                /\ chunks[sub[s].parent] = pre[s]
                /\ chunks[s] = EmptyChunks)
    /\ [](Discarded =>
            /\ chunks[last.arena] = last.pre
            /\ ~borrowed[last.arena]
            /\ sub[last.sub].status = "none"
            /\ Live(last.arena)
            /\ Running => ENABLED (SubArenaNew(last.arena) /\ panic' = "none"))
    /\ [][/\ \A p \in Arenas :
               BuilderNew(p) => (chunks' = chunks /\ dropCount' = dropCount)
          /\ \A s \in Subs :
               DiscardBuilder(s) =>
                   /\ chunks' = chunks
                   /\ dropCount' = dropCount
                   /\ ~borrowed'[sub[s].parent]]_vars

\* a builder on an arena holding both archived and current elements has been
\* discarded in normal execution
C18_Witness ==
    /\ Discarded
    /\ panic = "none"
    /\ last.pre.rest # <<>>
    /\ Flatten(last.pre.rest) # <<>>
    /\ last.pre.current.elems # <<>>

\* the number of places of seq that hold element e
Count(seq, e) == Cardinality({i \in DOMAIN seq : seq[i] = e})

RECURSIVE Everything(_)
\* the contents of every buffer of arenas a, a + 1, ... and of the local of the
\* running destruction
Everything(a) ==
    IF a > MaxSubs THEN stolen_vec.elems
    ELSE AllElems(chunks[a]) \o Everything(a + 1)

\* C19 (no double destruction, exclusive ownership): no element is destroyed
\* more than once; every allocated element that has not been destroyed is held
\* in exactly one place of exactly one buffer of exactly one chunk list (or of
\* the buffer the running destruction holds), and a destroyed element is held
\* nowhere; an element is destroyed only by a step of the destruction of the
\* sub-arena it was allocated through, so an element of the base arena never
\* is; and when a sub-arena has ceased to exist every element allocated through
\* it has been destroyed.
C19_DestroyedOnce ==
    /\ [](\A e \in Elems :
            /\ dropCount[e] <= 1
            /\ Count(Everything(0), e)
                  = (IF e < nextId /\ dropCount[e] = 0 THEN 1 ELSE 0)
            /\ e >= nextId => dropCount[e] = 0
            /\ (e < nextId /\ owner[e] = 0) => dropCount[e] = 0
            /\ (e < nextId /\ owner[e] \in Subs /\ dropCount[e] = 0)
                  => sub[owner[e]].status \in {"alive", "dropping"})
    /\ [](pc # "truncate" => stolen_vec = VecNew)
    /\ [][\A e \in Elems :
            dropCount'[e] # dropCount[e] =>
                /\ dropCount[e] = 0
                /\ dropCount'[e] = 1
                /\ pc # "idle"
                /\ owner[e] = cur
                /\ e \notin Range(AllElems(last.pre))]_vars

\* the inner one of two nested scopes has been destroyed with its element,
\* while an element of the outer scope and an element of the base arena are
\* still held
C19_Witness ==
    /\ Destroyed
    /\ last.arena \in Subs
    /\ \E e \in ScopeElems : dropCount[e] = 1
    /\ \E e \in LiveElemsOf(last.arena) : Count(AllElems(chunks[last.arena]), e) = 1
    /\ \E e \in LiveElemsOf(0) : Count(AllElems(pre[last.arena]), e) = 1

====
